---- MODULE Spec2Model ----
\* A model of the corim-store: the relational store behind pkg/store and
\* pkg/model, the activate/deactivate command of cmd/corim-store, and the
\* triple queries.  Rows are records, tables are sets of rows, every table has
\* its own autoincrement counter.
EXTENDS Integers, Sequences, FiniteSets, TLC

VARIABLES db, seq, last, pend

vars == <<db, seq, last, pend>>

-----------------------------------------------------------------------------
\* Bounds of the model.

\* Number of AddManifest calls that may reach the insert transaction.
MaxAdds == 2

\* The longest buffer handed to AddBytes.
MaxBufLen == 4

\* The number of registered migrations.
MaxMigrations == 2

\* The largest role code.
MaxRole == 12

-----------------------------------------------------------------------------
\* Tables and columns.

NULL == "NULL"

\* The ten attribute columns of the environments table.
Cols ==
  {"class_type", "class_bytes", "vendor", "model", "layer", "index",
   "instance_type", "instance_bytes", "group_type", "group_bytes"}

\* Tables whose rows carry only an owner link (owner_type, owner_id), or a
\* plain foreign key to their single kind of parent (recorded as ot as well).
LeafTables ==
  {"entities", "roles", "locators", "linked_tags", "measurements",
   "measurement_value_entries", "digests", "flags", "integrity_registers",
   "cryptokeys", "extensions"}

TripleTables == {"value_triples", "key_triples"}

Tables ==
  {"manifests", "module_tags", "value_triples", "key_triples", "environments"}
    \cup LeafTables

EmptyDB ==
  [manifests |-> {}, module_tags |-> {}, value_triples |-> {},
   key_triples |-> {}, environments |-> {}, leaves |-> {}]

\* A connection's view: the tables and the autoincrement counters.
\* ok turns FALSE when a statement or a validation has failed: every later
\* step of the same call is then skipped (the Go code returns the error).
St(d, q) == [db |-> d, seq |-> q, ok |-> TRUE]

Failed(s) == [s EXCEPT !.ok = FALSE]

NextID(s, tbl) == s.seq[tbl] + 1

Bump(s, tbl) == [s.seq EXCEPT ![tbl] = @ + 1]

Min(S) == CHOOSE x \in S : \A y \in S : x <= y

-----------------------------------------------------------------------------
\* In-memory objects (pkg/model structs) are records; a list of childless
\* children (extensions, digests, flags, ...) is given by its length.

AllNull == [c \in Cols |-> NULL]

EnvVendor == [AllNull EXCEPT !["vendor"] = "acme"]

EnvClass ==
  [AllNull EXCEPT !["vendor"] = "acme", !["class_type"] = "uuid",
                  !["class_bytes"] = "c1"]

EnvInstance ==
  [AllNull EXCEPT !["vendor"] = "acme", !["instance_type"] = "bytes",
                  !["instance_bytes"] = "deadbeef"]

\* ClassType without ClassBytes: rejected by Environment.Validate.
EnvBroken == [AllNull EXCEPT !["class_type"] = "uuid"]

EntityObj(nroles, nexts) == [roles |-> nroles, exts |-> nexts]

LocatorObj(nthumb) == [thumb |-> nthumb]

RegisterObj(ndigests) == [digests |-> ndigests]

MeasurementObj(nentries, ndigests, nflags, regs, nexts, nauth) ==
  [entries |-> nentries, digests |-> ndigests, flags |-> nflags,
   registers |-> regs, exts |-> nexts, auth |-> nauth]

ValueTripleObj(env, meas) ==
  [type |-> "reference", env |-> env, active |-> FALSE, meas |-> meas]

KeyTripleObj(env, nkeys, nauth) ==
  [type |-> "attest", env |-> env, active |-> FALSE, keys |-> nkeys,
   auth |-> nauth]

ModuleTagObj(tagID, entities, nlinks, vts, kts, nexts, ntexts) ==
  [tag_id |-> tagID, entities |-> entities, links |-> nlinks, vts |-> vts,
   kts |-> kts, exts |-> nexts, texts |-> ntexts]

ManifestObj(manifestID, digest, entities, rims, tags, nexts) ==
  [manifest_id |-> manifestID, label |-> "", digest |-> digest,
   entities |-> entities, rims |-> rims, tags |-> tags, exts |-> nexts]

-----------------------------------------------------------------------------
\* Validate methods.

EnvironmentValidate(e) ==
  /\ (e["class_type"] = NULL) = (e["class_bytes"] = NULL)
  /\ (e["instance_type"] = NULL) = (e["instance_bytes"] = NULL)
  /\ (e["group_type"] = NULL) = (e["group_bytes"] = NULL)

ValueTripleValidate(vt) ==
  /\ vt.type # ""
  /\ EnvironmentValidate(vt.env)
  /\ Len(vt.meas) # 0

KeyTripleValidate(kt) ==
  /\ kt.type # ""
  /\ EnvironmentValidate(kt.env)
  /\ kt.keys # 0

EntityValidate(e) == e.roles # 0

ModuleTagValidate(t) ==
  /\ t.tag_id # ""
  /\ ~(Len(t.vts) = 0 /\ Len(t.kts) = 0)
  /\ \A i \in 1..Len(t.entities) : EntityValidate(t.entities[i])
  /\ \A i \in 1..Len(t.vts) : ValueTripleValidate(t.vts[i])
  /\ \A i \in 1..Len(t.kts) : KeyTripleValidate(t.kts[i])

ManifestValidate(m) ==
  /\ m.manifest_id # ""
  /\ Len(m.tags) # 0
  /\ \A i \in 1..Len(m.tags) : ModuleTagValidate(m.tags[i])
  /\ \A i \in 1..Len(m.entities) : EntityValidate(m.entities[i])

-----------------------------------------------------------------------------
\* Insert methods.  Each takes the connection's view and returns the new one.

InsertLeaf(s, tbl, ot, oid) ==
  [s EXCEPT !.db.leaves =
              @ \cup {[tbl |-> tbl, id |-> NextID(s, tbl), ot |-> ot, oid |-> oid]},
            !.seq = Bump(s, tbl)]

RECURSIVE InsertLeaves(_, _, _, _, _)
InsertLeaves(s, tbl, ot, oid, n) ==
  IF n = 0 \/ ~s.ok THEN s
  ELSE InsertLeaves(InsertLeaf(s, tbl, ot, oid), tbl, ot, oid, n - 1)

\* WHERE clauses built from an environment: a set column must be equal, an
\* unset column must be NULL when exact and may be anything otherwise.
UpdateSelectQueryFromEnvironment(row, env, exact) ==
  \A c \in Cols :
    IF env[c] # NULL THEN row.cols[c] = env[c]
    ELSE exact => row.cols[c] = NULL

\* The id the environment object ends up with.
EnvironmentInsertID(s, env) ==
  LET found == {r \in s.db.environments :
                  UpdateSelectQueryFromEnvironment(r, env, TRUE)}
  IN  IF found # {} THEN Min({r.id : r \in found})
      ELSE NextID(s, "environments")

\* The insert without the lookup of an equal row.
EnvironmentInsertNoLookup(s, env) ==
  IF ~s.ok THEN s
  ELSE IF ~EnvironmentValidate(env) THEN Failed(s)
  ELSE [s EXCEPT !.db.environments =
                   @ \cup {[id |-> NextID(s, "environments"), cols |-> env]},
                 !.seq = Bump(s, "environments")]

EnvironmentInsert(s, env) ==
  LET found == {r \in s.db.environments :
                  UpdateSelectQueryFromEnvironment(r, env, TRUE)}
  IN  IF ~s.ok THEN s
      ELSE IF ~EnvironmentValidate(env) THEN Failed(s)
      ELSE IF found # {} THEN s
      ELSE [s EXCEPT !.db.environments =
                       @ \cup {[id |-> NextID(s, "environments"), cols |-> env]},
                     !.seq = Bump(s, "environments")]

EntityInsert(s, e, ot, oid) ==
  LET id == NextID(s, "entities")
      s1 == InsertLeaf(s, "entities", ot, oid)
      s2 == InsertLeaves(s1, "roles", "entity", id, e.roles)
  IN  IF ~s.ok THEN s ELSE InsertLeaves(s2, "extensions", "entity", id, e.exts)

RECURSIVE InsertEntities(_, _, _, _)
InsertEntities(s, es, ot, oid) ==
  IF es = <<>> \/ ~s.ok THEN s
  ELSE InsertEntities(EntityInsert(s, Head(es), ot, oid), Tail(es), ot, oid)

LocatorInsert(s, l, manifestID) ==
  LET id == NextID(s, "locators")
      s1 == InsertLeaf(s, "locators", "manifest", manifestID)
  IN  IF ~s.ok THEN s ELSE InsertLeaves(s1, "digests", "locator", id, l.thumb)

RECURSIVE InsertLocators(_, _, _)
InsertLocators(s, ls, manifestID) ==
  IF ls = <<>> \/ ~s.ok THEN s
  ELSE InsertLocators(LocatorInsert(s, Head(ls), manifestID), Tail(ls), manifestID)

IntegrityRegisterInsert(s, r, measurementID) ==
  LET id == NextID(s, "integrity_registers")
      s1 == InsertLeaf(s, "integrity_registers", "measurement", measurementID)
  IN  IF ~s.ok THEN s
      ELSE InsertLeaves(s1, "digests", "integrity_register", id, r.digests)

RECURSIVE InsertRegisters(_, _, _)
InsertRegisters(s, rs, measurementID) ==
  IF rs = <<>> \/ ~s.ok THEN s
  ELSE InsertRegisters(IntegrityRegisterInsert(s, Head(rs), measurementID),
                       Tail(rs), measurementID)

MeasurementInsert(s, m, ot, oid) ==
  LET id == NextID(s, "measurements")
      s1 == InsertLeaf(s, "measurements", ot, oid)
      s2 == InsertLeaves(s1, "measurement_value_entries", "measurement", id, m.entries)
      s3 == InsertLeaves(s2, "digests", "measurement", id, m.digests)
      s4 == InsertLeaves(s3, "flags", "measurement", id, m.flags)
      s5 == InsertRegisters(s4, m.registers, id)
      s6 == InsertLeaves(s5, "extensions", "measurement", id, m.exts)
  IN  IF ~s.ok THEN s ELSE InsertLeaves(s6, "cryptokeys", "measurement", id, m.auth)

RECURSIVE InsertMeasurements(_, _, _, _)
InsertMeasurements(s, ms, ot, oid) ==
  IF ms = <<>> \/ ~s.ok THEN s
  ELSE InsertMeasurements(MeasurementInsert(s, Head(ms), ot, oid), Tail(ms), ot, oid)

ValueTripleInsert(s, vt, moduleID) ==
  LET s1 == EnvironmentInsert(s, vt.env)
      id == NextID(s1, "value_triples")
      s2 == [s1 EXCEPT !.db.value_triples =
                         @ \cup {[id |-> id, module_id |-> moduleID,
                                  environment_id |-> EnvironmentInsertID(s, vt.env),
                                  is_active |-> vt.active]},
                       !.seq = Bump(s1, "value_triples")]
  IN  IF ~s.ok THEN s
      ELSE IF ~ValueTripleValidate(vt) THEN Failed(s)
      ELSE IF ~s1.ok THEN s1
      ELSE InsertMeasurements(s2, vt.meas, "value_triple", id)

RECURSIVE InsertValueTriples(_, _, _)
InsertValueTriples(s, vts, moduleID) ==
  IF vts = <<>> \/ ~s.ok THEN s
  ELSE InsertValueTriples(ValueTripleInsert(s, Head(vts), moduleID), Tail(vts), moduleID)

KeyTripleInsert(s, kt, moduleID) ==
  LET s1 == EnvironmentInsert(s, kt.env)
      id == NextID(s1, "key_triples")
      s2 == [s1 EXCEPT !.db.key_triples =
                         @ \cup {[id |-> id, module_id |-> moduleID,
                                  environment_id |-> EnvironmentInsertID(s, kt.env),
                                  is_active |-> kt.active]},
                       !.seq = Bump(s1, "key_triples")]
      s3 == InsertLeaves(s2, "cryptokeys", "key_triple", id, kt.keys)
  IN  IF ~s.ok THEN s
      ELSE IF ~KeyTripleValidate(kt) THEN Failed(s)
      ELSE IF ~s1.ok THEN s1
      ELSE InsertLeaves(s3, "cryptokeys", "key_triple_auth", id, kt.auth)

RECURSIVE InsertKeyTriples(_, _, _)
InsertKeyTriples(s, kts, moduleID) ==
  IF kts = <<>> \/ ~s.ok THEN s
  ELSE InsertKeyTriples(KeyTripleInsert(s, Head(kts), moduleID), Tail(kts), moduleID)

ModuleTagInsert(s, t, manifestID) ==
  LET id == NextID(s, "module_tags")
      s1 == [s EXCEPT !.db.module_tags =
                        @ \cup {[id |-> id, manifest_id |-> manifestID,
                                 tag_id |-> t.tag_id]},
                      !.seq = Bump(s, "module_tags")]
      s2 == InsertEntities(s1, t.entities, "module_tag", id)
      s3 == InsertLeaves(s2, "linked_tags", "module_tag", id, t.links)
      s4 == InsertValueTriples(s3, t.vts, id)
      s5 == InsertKeyTriples(s4, t.kts, id)
      s6 == InsertLeaves(s5, "extensions", "module_tag", id, t.exts)
  IN  IF ~s.ok THEN s
      ELSE IF ~ModuleTagValidate(t) THEN Failed(s)
      ELSE InsertLeaves(s6, "extensions", "triples", id, t.texts)

RECURSIVE InsertModuleTags(_, _, _)
InsertModuleTags(s, ts, manifestID) ==
  IF ts = <<>> \/ ~s.ok THEN s
  ELSE InsertModuleTags(ModuleTagInsert(s, Head(ts), manifestID), Tail(ts), manifestID)

\* The owner_type Manifest.Insert writes on the manifest's own extensions.
ManifestExtensionOwner == "manifest"

ManifestInsert(s, m) ==
  LET id == NextID(s, "manifests")
      s1 == [s EXCEPT !.db.manifests =
                        @ \cup {[id |-> id, manifest_id |-> m.manifest_id,
                                 label |-> m.label, digest |-> m.digest]},
                      !.seq = Bump(s, "manifests")]
      s2 == InsertEntities(s1, m.entities, "manifest", id)
      s3 == InsertLocators(s2, m.rims, id)
      s4 == InsertModuleTags(s3, m.tags, id)
  IN  IF ~s.ok THEN s
      ELSE IF ~ManifestValidate(m) THEN Failed(s)
      ELSE InsertLeaves(s4, "extensions", ManifestExtensionOwner, id, m.exts)

-----------------------------------------------------------------------------
\* Select and Delete methods.  Delete works on the object Select has loaded:
\* it issues one DELETE ... WHERE id = ? per loaded object, children first.
\* A Delete method is modelled by the statements it issues, in order, for the
\* object loaded from the tables d; rows come back in id order.

RECURSIVE SortedSeq(_)
SortedSeq(S) ==
  IF S = {} THEN <<>> ELSE <<Min(S)>> \o SortedSeq(S \ {Min(S)})

DeleteStmt(tbl, id) == [op |-> "delete", tbl |-> tbl, id |-> id]

OrphanStmt(envID) == [op |-> "orphan", tbl |-> "environments", id |-> envID]

\* The ids a has-many relation loads from a leaf table.
Related(d, tbl, ot, oid) ==
  SortedSeq({r.id : r \in {x \in d.leaves : x.tbl = tbl /\ x.ot = ot /\ x.oid = oid}})

RECURSIVE DeleteAll(_, _, _)

\* Childless objects: ExtensionValue, Digest, Flag, RoleEntry, CryptoKey,
\* LinkedTag, MeasurementValueEntry.
LeafDelete(tbl, id) == <<DeleteStmt(tbl, id)>>

EntityDelete(d, id) ==
  DeleteAll(d, "extensions", Related(d, "extensions", "entity", id))
    \o DeleteAll(d, "roles", Related(d, "roles", "entity", id))
    \o <<DeleteStmt("entities", id)>>

LocatorDelete(d, id) ==
  DeleteAll(d, "digests", Related(d, "digests", "locator", id))
    \o <<DeleteStmt("locators", id)>>

IntegrityRegisterDelete(d, id) ==
  DeleteAll(d, "digests", Related(d, "digests", "integrity_register", id))
    \o <<DeleteStmt("integrity_registers", id)>>

MeasurementDelete(d, id) ==
  DeleteAll(d, "cryptokeys", Related(d, "cryptokeys", "measurement", id))
    \o DeleteAll(d, "digests", Related(d, "digests", "measurement", id))
    \o DeleteAll(d, "flags", Related(d, "flags", "measurement", id))
    \o DeleteAll(d, "integrity_registers",
                 Related(d, "integrity_registers", "measurement", id))
    \o DeleteAll(d, "measurement_value_entries",
                 Related(d, "measurement_value_entries", "measurement", id))
    \o DeleteAll(d, "extensions", Related(d, "extensions", "measurement", id))
    \o <<DeleteStmt("measurements", id)>>

\* The environment_id of a loaded triple (the Environment relation).
TripleEnvironment(rows, id) == (CHOOSE r \in rows : r.id = id).environment_id

ValueTripleDelete(d, id) ==
  DeleteAll(d, "measurements", Related(d, "measurements", "value_triple", id))
    \o <<DeleteStmt("value_triples", id),
         OrphanStmt(TripleEnvironment(d.value_triples, id))>>

KeyTripleDelete(d, id) ==
  DeleteAll(d, "cryptokeys", Related(d, "cryptokeys", "key_triple", id))
    \o DeleteAll(d, "cryptokeys", Related(d, "cryptokeys", "key_triple_auth", id))
    \o <<DeleteStmt("key_triples", id),
         OrphanStmt(TripleEnvironment(d.key_triples, id))>>

TriplesOf(rows, moduleID) ==
  SortedSeq({r.id : r \in {x \in rows : x.module_id = moduleID}})

\* A Delete that removes the module tag row before the rows it owns.
ModuleTagDeleteRowFirst(d, id) ==
  <<DeleteStmt("module_tags", id)>>
    \o DeleteAll(d, "linked_tags", Related(d, "linked_tags", "module_tag", id))
    \o DeleteAll(d, "entities", Related(d, "entities", "module_tag", id))
    \o DeleteAll(d, "value_triples", TriplesOf(d.value_triples, id))
    \o DeleteAll(d, "key_triples", TriplesOf(d.key_triples, id))
    \o DeleteAll(d, "extensions", Related(d, "extensions", "module_tag", id))
    \o DeleteAll(d, "extensions", Related(d, "extensions", "triples", id))

ModuleTagDelete(d, id) ==
  DeleteAll(d, "linked_tags", Related(d, "linked_tags", "module_tag", id))
    \o DeleteAll(d, "entities", Related(d, "entities", "module_tag", id))
    \o DeleteAll(d, "value_triples", TriplesOf(d.value_triples, id))
    \o DeleteAll(d, "key_triples", TriplesOf(d.key_triples, id))
    \o DeleteAll(d, "extensions", Related(d, "extensions", "module_tag", id))
    \o DeleteAll(d, "extensions", Related(d, "extensions", "triples", id))
    \o <<DeleteStmt("module_tags", id)>>

ModuleTagsOf(d, manifestID) ==
  SortedSeq({r.id : r \in {x \in d.module_tags : x.manifest_id = manifestID}})

ManifestDelete(d, id) ==
  DeleteAll(d, "entities", Related(d, "entities", "manifest", id))
    \o DeleteAll(d, "module_tags", ModuleTagsOf(d, id))
    \o DeleteAll(d, "locators", Related(d, "locators", "manifest", id))
    \o <<DeleteStmt("manifests", id)>>

\* for _, x := range o.Xs { x.Delete(ctx, db) }
DeleteAll(d, tbl, ids) ==
  IF ids = <<>> THEN <<>>
  ELSE (CASE tbl = "entities" -> EntityDelete(d, Head(ids))
          [] tbl = "locators" -> LocatorDelete(d, Head(ids))
          [] tbl = "integrity_registers" -> IntegrityRegisterDelete(d, Head(ids))
          [] tbl = "measurements" -> MeasurementDelete(d, Head(ids))
          [] tbl = "value_triples" -> ValueTripleDelete(d, Head(ids))
          [] tbl = "key_triples" -> KeyTripleDelete(d, Head(ids))
          [] tbl = "module_tags" -> ModuleTagDelete(d, Head(ids))
          [] OTHER -> LeafDelete(tbl, Head(ids)))
       \o DeleteAll(d, tbl, Tail(ids))

\* DELETE FROM tbl WHERE id = ?
DeleteRow(d, tbl, id) ==
  IF tbl \in LeafTables
  THEN [d EXCEPT !.leaves = {r \in @ : ~(r.tbl = tbl /\ r.id = id)}]
  ELSE [d EXCEPT ![tbl] = {r \in @ : r.id # id}]

\* The orphan test that looks at key_triples alone.
DeleteIfOrphanedKeyTriplesOnly(d, envID) ==
  IF {r \in d.key_triples : r.environment_id = envID} # {} THEN d
  ELSE DeleteRow(d, "environments", envID)

\* The environment row goes unless a key triple or a value triple refers to it.
DeleteIfOrphaned(d, envID) ==
  IF {r \in d.key_triples : r.environment_id = envID} # {} THEN d
  ELSE IF {r \in d.value_triples : r.environment_id = envID} # {} THEN d
  ELSE DeleteRow(d, "environments", envID)

ExecStmt(d, st) ==
  IF st.op = "delete" THEN DeleteRow(d, st.tbl, st.id)
  ELSE DeleteIfOrphaned(d, st.id)

RECURSIVE Exec(_, _)
Exec(d, stmts) ==
  IF stmts = <<>> THEN d ELSE Exec(ExecStmt(d, Head(stmts)), Tail(stmts))

\* Select methods: the object loaded for a row id, its relations filled in.
\* A has-many relation loads the rows whose owner columns match.
EntitySelect(d, id) ==
  EntityObj(Len(Related(d, "roles", "entity", id)),
            Len(Related(d, "extensions", "entity", id)))

LocatorSelect(d, id) == LocatorObj(Len(Related(d, "digests", "locator", id)))

MeasurementSelect(d, id) ==
  LET regs == Related(d, "integrity_registers", "measurement", id)
  IN  MeasurementObj(
        Len(Related(d, "measurement_value_entries", "measurement", id)),
        Len(Related(d, "digests", "measurement", id)),
        Len(Related(d, "flags", "measurement", id)),
        [i \in 1..Len(regs) |->
           RegisterObj(Len(Related(d, "digests", "integrity_register", regs[i])))],
        Len(Related(d, "extensions", "measurement", id)),
        Len(Related(d, "cryptokeys", "measurement", id)))

\* The columns of the environment a triple row belongs to.
TripleEnvironmentCols(d, row) ==
  (CHOOSE e \in d.environments : e.id = row.environment_id).cols

ValueTripleSelect(d, id) ==
  LET row == CHOOSE r \in d.value_triples : r.id = id
      meas == Related(d, "measurements", "value_triple", id)
  IN  [type |-> "reference", env |-> TripleEnvironmentCols(d, row),
       active |-> row.is_active,
       meas |-> [i \in 1..Len(meas) |-> MeasurementSelect(d, meas[i])]]

KeyTripleSelect(d, id) ==
  LET row == CHOOSE r \in d.key_triples : r.id = id
  IN  [type |-> "attest", env |-> TripleEnvironmentCols(d, row),
       active |-> row.is_active,
       keys |-> Len(Related(d, "cryptokeys", "key_triple", id)),
       auth |-> Len(Related(d, "cryptokeys", "key_triple_auth", id))]

ModuleTagSelect(d, id) ==
  LET row == CHOOSE r \in d.module_tags : r.id = id
      entities == Related(d, "entities", "module_tag", id)
      vts == TriplesOf(d.value_triples, id)
      kts == TriplesOf(d.key_triples, id)
  IN  ModuleTagObj(row.tag_id,
        [i \in 1..Len(entities) |-> EntitySelect(d, entities[i])],
        Len(Related(d, "linked_tags", "module_tag", id)),
        [i \in 1..Len(vts) |-> ValueTripleSelect(d, vts[i])],
        [i \in 1..Len(kts) |-> KeyTripleSelect(d, kts[i])],
        Len(Related(d, "extensions", "module_tag", id)),
        Len(Related(d, "extensions", "triples", id)))

\* The Extensions relation of Manifest is declared polymorphic:module_tag.
ManifestExtensions(d, id) == Related(d, "extensions", "module_tag", id)

ManifestSelect(d, id) ==
  LET row == CHOOSE r \in d.manifests : r.id = id
      entities == Related(d, "entities", "manifest", id)
      rims == Related(d, "locators", "manifest", id)
      tags == ModuleTagsOf(d, id)
  IN  [manifest_id |-> row.manifest_id, label |-> row.label,
       digest |-> row.digest,
       entities |-> [i \in 1..Len(entities) |-> EntitySelect(d, entities[i])],
       rims |-> [i \in 1..Len(rims) |-> LocatorSelect(d, rims[i])],
       tags |-> [i \in 1..Len(tags) |-> ModuleTagSelect(d, tags[i])],
       exts |-> Len(ManifestExtensions(d, id))]

\* Manifest.ToCoRIM: the CoRIM of a manifest.  The label, the digest and the
\* is_active flags are the store's own and are no part of it.
ManifestToCoRIM(m) ==
  LET triple(tr) == [tr EXCEPT !.active = FALSE]
      tag(mt) == [mt EXCEPT !.vts = [i \in 1..Len(mt.vts) |-> triple(mt.vts[i])],
                            !.kts = [i \in 1..Len(mt.kts) |-> triple(mt.kts[i])]]
  IN  [id |-> m.manifest_id, entities |-> m.entities, rims |-> m.rims,
       tags |-> [i \in 1..Len(m.tags) |-> tag(m.tags[i])], exts |-> m.exts]

-----------------------------------------------------------------------------
\* The store facade (pkg/store).

Cfg(force, requireLabel) == [Force |-> force, RequireLabel |-> requireLabel]

Res(d, q, err) == [db |-> d, seq |-> q, err |-> err]

\* SELECT ... FROM manifests WHERE manifest_id = ? scanned into one struct:
\* the first row.
FindManifest(d, manifestID) ==
  {r \in d.manifests :
     /\ r.manifest_id = manifestID
     /\ \A o \in d.manifests : o.manifest_id = manifestID => r.id <= o.id}

\* The insert transaction of AddManifest: BeginTx, m.Insert, Commit, with a
\* rollback when Insert fails.  fault = "insert" stands for a failing
\* statement (or a cancelled context) somewhere inside the transaction.
InsertTx(d, q, m, fault) ==
  LET s == ManifestInsert(St(d, q), m)
  IN  IF ~s.ok THEN Res(d, q, "Validation")
      ELSE IF fault = "insert" THEN Res(d, q, "Database")
      ELSE Res(s.db, s.seq, "ok")

\* A digest comparison that takes a missing digest for a different one.
DigestErrorNoMissing(existing, m) ==
  IF existing.digest = m.digest THEN "AlreadyInStoreDigestsMatch"
  ELSE "AlreadyInStoreDigestsDiffer"

\* What AddManifest does with a manifest that is already stored.
DigestError(existing, m) ==
  IF existing.digest # "" /\ m.digest # ""
  THEN IF existing.digest = m.digest THEN "AlreadyInStoreDigestsMatch"
       ELSE "AlreadyInStoreDigestsDiffer"
  ELSE "AlreadyInStore"

\* With Force the stored manifest is loaded and deleted in a transaction of
\* its own, which is committed before the insert transaction begins.
ForceDelete(d, existing) == Exec(d, ManifestDelete(d, existing.id))

\* AddManifest without the RequireLabel check.
AddManifestAnyLabel(d, q, m, cfg, fault) ==
  LET found == FindManifest(d, m.manifest_id)
      existing == CHOOSE r \in found : TRUE
  IN  IF found # {}
      THEN IF cfg.Force
           THEN IF fault = "delete" THEN Res(d, q, "Database")
                ELSE InsertTx(ForceDelete(d, existing), q, m, fault)
           ELSE Res(d, q, DigestError(existing, m))
      ELSE InsertTx(d, q, m, fault)

AddManifest(d, q, m, cfg, fault) ==
  LET found == FindManifest(d, m.manifest_id)
      existing == CHOOSE r \in found : TRUE
  IN  IF cfg.RequireLabel /\ m.label = "" THEN Res(d, q, "NoLabel")
      ELSE IF found # {}
      THEN IF cfg.Force
           THEN IF fault = "delete" THEN Res(d, q, "Database")
                ELSE InsertTx(ForceDelete(d, existing), q, m, fault)
           ELSE Res(d, q, DigestError(existing, m))
      ELSE InsertTx(d, q, m, fault)

\* Manifest.SetActive / ModuleTag.SetActive on the in-memory object.
TripleSetActive(tr, value) == [tr EXCEPT !.active = value]

\* A SetActive that leaves the value triples as they are.
ModuleTagSetActiveKeysOnly(t, value) ==
  [t EXCEPT !.kts = [i \in 1..Len(t.kts) |-> TripleSetActive(t.kts[i], value)]]

ModuleTagSetActive(t, value) ==
  [t EXCEPT !.kts = [i \in 1..Len(t.kts) |-> TripleSetActive(t.kts[i], value)],
            !.vts = [i \in 1..Len(t.vts) |-> TripleSetActive(t.vts[i], value)]]

ManifestSetActive(m, value) ==
  [m EXCEPT !.tags = [i \in 1..Len(m.tags) |-> ModuleTagSetActive(m.tags[i], value)]]

\* AddCoRIM: the manifest built from the token gets the digest and the label,
\* is activated when asked to, and goes to AddManifest.
AddCoRIM(d, q, c, label, activate, cfg, fault) ==
  LET m == [c EXCEPT !.label = label]
  IN  AddManifest(d, q, IF activate THEN ManifestSetActive(m, TRUE) ELSE m,
                  cfg, fault)

\* A query for the manifest_id alone.
GetManifestRowsAnyLabel(d, manifestID, label) ==
  {r \in d.manifests : r.manifest_id = manifestID}

\* The rows GetManifest's query matches.
GetManifestRows(d, manifestID, label) ==
  {r \in d.manifests :
     r.manifest_id = manifestID /\ (label # "" => r.label = label)}

GetManifestErr(d, manifestID, label, cfg) ==
  IF label = "" /\ cfg.RequireLabel THEN "NoLabel"
  ELSE IF GetManifestRows(d, manifestID, label) = {} THEN "NotFound"
  ELSE "ok"

\* The database id of the manifest GetManifest returns.
GetManifest(d, manifestID, label) ==
  Min({r.id : r \in GetManifestRows(d, manifestID, label)})

DeleteManifest(d, q, manifestID, label, cfg) ==
  LET err == GetManifestErr(d, manifestID, label, cfg)
  IN  IF err # "ok" THEN Res(d, q, err)
      ELSE Res(Exec(d, ManifestDelete(d, GetManifest(d, manifestID, label))),
               q, "ok")

-----------------------------------------------------------------------------
\* activate / deactivate (cmd/corim-store/cmd/lifecycle.go).

\* The update without its WHERE clause.
setActiveEveryRow(d, tbl, ids, value) ==
  [d EXCEPT ![tbl] = {[r EXCEPT !.is_active = value] : r \in @}]

\* UPDATE tbl SET is_active = value WHERE id IN (ids)
setActive(d, tbl, ids, value) ==
  [d EXCEPT ![tbl] =
     {IF r.id \in ids THEN [r EXCEPT !.is_active = value] ELSE r : r \in @}]

keyTriplesSetActive(d, ids, value) == setActive(d, "key_triples", ids, value)

valueTriplesSetActive(d, ids, value) == setActive(d, "value_triples", ids, value)

\* The value moduleTagsSetActive hands to keyTriplesSetActive and
\* valueTriplesSetActive when called with value.
ModuleTagsValue(value) == TRUE

\* One round of the loop of moduleTagsSetActive, for module tag id.
ModuleTagSetActiveStep(r, id, value) ==
  LET keyTripleIDs == {x.id : x \in {y \in r.db.key_triples : y.module_id = id}}
      d1 == IF keyTripleIDs = {} THEN r.db
            ELSE keyTriplesSetActive(r.db, keyTripleIDs, ModuleTagsValue(value))
      valueTripleIDs == {x.id : x \in {y \in d1.value_triples : y.module_id = id}}
      d2 == IF valueTripleIDs = {} THEN d1
            ELSE valueTriplesSetActive(d1, valueTripleIDs, ModuleTagsValue(value))
  IN  IF keyTripleIDs = {} /\ valueTripleIDs = {}
      THEN [db |-> d2, err |-> "NoTriples"]
      ELSE [db |-> d2, err |-> "ok"]

RECURSIVE moduleTagsSetActive(_, _, _)
moduleTagsSetActive(r, ids, value) ==
  IF ids = <<>> \/ r.err # "ok" THEN r
  ELSE moduleTagsSetActive(ModuleTagSetActiveStep(r, Head(ids), value),
                           Tail(ids), value)

\* The module tag ids the command collects for the --module-tag values.
RECURSIVE ModuleTagIDsByTagID(_, _)
ModuleTagIDsByTagID(d, texts) ==
  IF texts = <<>> THEN <<>>
  ELSE SortedSeq({r.id : r \in {x \in d.module_tags : x.tag_id = Head(texts)}})
         \o ModuleTagIDsByTagID(d, Tail(texts))

\* The module tag ids the command collects for the --manifest values.
RECURSIVE ModuleTagIDsByManifestID(_, _)
ModuleTagIDsByManifestID(d, texts) ==
  IF texts = <<>> THEN <<>>
  ELSE SortedSeq({r.id : r \in
                    {x \in d.module_tags :
                       \E man \in d.manifests :
                         man.id = x.manifest_id /\ man.manifest_id = Head(texts)}})
         \o ModuleTagIDsByManifestID(d, Tail(texts))

Range(f) == {f[i] : i \in DOMAIN f}

setActiveCommand(d, req, value) ==
  LET d1 == IF req.kts = <<>> THEN d
            ELSE keyTriplesSetActive(d, Range(req.kts), value)
      d2 == IF req.vts = <<>> THEN d1
            ELSE valueTriplesSetActive(d1, Range(req.vts), value)
      r3 == IF req.tags = <<>> THEN [db |-> d2, err |-> "ok"]
            ELSE moduleTagsSetActive([db |-> d2, err |-> "ok"],
                                     ModuleTagIDsByTagID(d2, req.tags), value)
  IN  IF r3.err # "ok" \/ req.manifests = <<>> THEN r3
      ELSE moduleTagsSetActive(r3, ModuleTagIDsByManifestID(r3.db, req.manifests),
                               value)

-----------------------------------------------------------------------------
\* Triple queries (getTriples and the four Get*Triples methods).

IsEmpty(env) == \A c \in Cols : env[c] = NULL

FindEnvironmentIDs(d, env, exact) ==
  {r.id : r \in {x \in d.environments :
                   UpdateSelectQueryFromEnvironment(x, env, exact)}}

FindModuleTagIDsForLabel(d, label) ==
  {mod.id : mod \in {x \in d.module_tags :
                       \E man \in d.manifests :
                         man.id = x.manifest_id /\ man.label = label}}

\* query.WhereGroup(" AND ", ...) with one WhereOr("col = ?", id) per id:
\* the query builder adds nothing to the query for a group without conditions.
WhereGroup(ids, v) == ids = {} \/ v \in ids

\* A getTriples that sends the same queries without the is_active condition.
getTriplesAnyState(d, kind, env, label, exact, activeOnly, cfg) ==
  LET envIDs == FindEnvironmentIDs(d, env, exact)
      useEnv == ~IsEmpty(env)
      modIDs == FindModuleTagIDsForLabel(d, label)
      rows == {r \in d[kind] :
                 /\ useEnv => WhereGroup(envIDs, r.environment_id)
                 /\ label # "" => WhereGroup(modIDs, r.module_id)}
  IN  IF useEnv /\ envIDs = {}
      THEN [err |-> "NoMatch", ids |-> {}, queries |-> 1]
      ELSE IF label = "" /\ cfg.RequireLabel
      THEN [err |-> "NoLabel", ids |-> {}, queries |-> 0]
      ELSE [err |-> "ok", ids |-> {r.id : r \in rows}, queries |-> 1]

\* kind is "value_triples" or "key_triples".  The result: the error, the ids of
\* the rows returned, and the number of queries sent to the database.
getTriples(d, kind, env, label, exact, activeOnly, cfg) ==
  LET envIDs == FindEnvironmentIDs(d, env, exact)
      useEnv == ~IsEmpty(env)
      modIDs == FindModuleTagIDsForLabel(d, label)
      n1 == IF useEnv THEN 1 ELSE 0
      rows == {r \in d[kind] :
                 /\ activeOnly => r.is_active
                 /\ useEnv => WhereGroup(envIDs, r.environment_id)
                 /\ label # "" => WhereGroup(modIDs, r.module_id)}
  IN  IF useEnv /\ envIDs = {}
      THEN [err |-> "NoMatch", ids |-> {}, queries |-> n1]
      ELSE IF label = "" /\ cfg.RequireLabel
      THEN [err |-> "NoLabel", ids |-> {}, queries |-> n1]
      ELSE [err |-> "ok", ids |-> {r.id : r \in rows},
            queries |-> n1 + (IF label # "" THEN 1 ELSE 0) + 1]

-----------------------------------------------------------------------------
\* Inputs.

FullMeasurement == MeasurementObj(1, 1, 1, <<RegisterObj(1)>>, 1, 1)

PlainMeasurement == MeasurementObj(1, 0, 0, <<>>, 0, 0)

\* m1: one module tag with a value triple and a key triple, an entity, a
\* dependent-RIM locator with a thumbprint and one manifest-level extension.
CorimA ==
  ManifestObj("m1", "d1", <<EntityObj(1, 1)>>, <<LocatorObj(1)>>,
    <<ModuleTagObj("t1", <<EntityObj(1, 0)>>, 1,
        <<ValueTripleObj(EnvVendor, <<FullMeasurement>>)>>,
        <<KeyTripleObj(EnvClass, 1, 1)>>, 1, 1)>>, 1)

\* m1 again, other content and another digest.
CorimA2 ==
  ManifestObj("m1", "d3", <<>>, <<>>,
    <<ModuleTagObj("t1", <<>>, 0, <<>>,
        <<KeyTripleObj(EnvInstance, 1, 0)>>, 0, 0)>>, 0)

\* m2: two module tags; shares environments with m1.
CorimB ==
  ManifestObj("m2", "d2", <<>>, <<>>,
    <<ModuleTagObj("t2", <<>>, 0, <<>>, <<KeyTripleObj(EnvVendor, 1, 0)>>, 1, 0),
      ModuleTagObj("t3", <<>>, 0,
        <<ValueTripleObj(AllNull, <<PlainMeasurement>>)>>, <<>>, 0, 0)>>, 0)

\* Manifests Validate rejects.
CorimNoTags == ManifestObj("m3", "d4", <<>>, <<>>, <<>>, 0)

CorimBadEnv ==
  ManifestObj("m1", "d6", <<>>, <<>>,
    <<ModuleTagObj("t1", <<>>, 0, <<>>, <<KeyTripleObj(EnvBroken, 1, 0)>>, 0, 0)>>, 0)

\* m1 handed to AddCoRIM with a nil digest.
CorimA0 ==
  ManifestObj("m1", "", <<>>, <<>>,
    <<ModuleTagObj("t1", <<>>, 0, <<>>,
        <<KeyTripleObj(EnvVendor, 1, 0)>>, 0, 0)>>, 0)

ValidCorims == {CorimA, CorimA2, CorimB}

\* Tokens with and without a digest, valid and not.
DigestCorims == {CorimA, CorimA0, CorimA2, CorimB, CorimBadEnv}

Corims == ValidCorims \cup {CorimNoTags, CorimBadEnv}

ManifestIDs == {"m1", "m2", "m3"}

Labels == {"", "a", "b"}

\* The labels manifests are stored under; "b" is asked for and never stored.
AddLabels == {"", "a"}


Faults == {"none", "delete", "insert"}

Cfgs == {Cfg(f, r) : f \in BOOLEAN, r \in BOOLEAN}

IngestCfgs == {Cfg(f, FALSE) : f \in BOOLEAN}

\* Force plays no part in the calls that only read or delete.
ReadCfgs == {Cfg(FALSE, r) : r \in BOOLEAN}

Probes == {AllNull, EnvVendor, EnvClass}

Req(kts, vts, tags, manifests) ==
  [kts |-> kts, vts |-> vts, tags |-> tags, manifests |-> manifests]

\* The activate/deactivate command lines tried.
Reqs ==
  {Req(<<1>>, <<>>, <<>>, <<>>), Req(<<>>, <<1>>, <<>>, <<>>),
   Req(<<>>, <<>>, <<"t1">>, <<>>), Req(<<>>, <<>>, <<"t3">>, <<>>),
   Req(<<>>, <<>>, <<>>, <<"m1">>), Req(<<>>, <<>>, <<>>, <<"m2">>),
   Req(<<>>, <<>>, <<>>, <<"m1", "m2">>), Req(<<2>>, <<>>, <<>>, <<"m1">>),
   Req(<<>>, <<2>>, <<"t2">>, <<>>), Req(<<>>, <<>>, <<"t9">>, <<"m2">>)}

-----------------------------------------------------------------------------
\* The state machine.  db and seq are the database; last records the call that
\* has just returned; pend holds, for each client of the concurrent
\* specification, the AddManifest call it is inside of.

\* Store.AddBytes.

\* A buffer is a sequence of bytes.  The first byte of a COSE_Sign1 message
\* (CBOR tag 18) and the first three bytes of an unsigned CoRIM (CBOR tag 501).
SignedTag == 210

UnsignedTag == <<217, 1, 245>>

\* What the decoders return: the CoRIM, or an error.  These payload bytes
\* decode to a CoRIM; every other payload, the empty one included, does not.
DecodePayload(payload) ==
  IF payload = <<1>> THEN [ok |-> TRUE, corim |-> CorimA]
  ELSE IF payload = <<245>> THEN [ok |-> TRUE, corim |-> CorimB]
  ELSE [ok |-> FALSE, corim |-> CorimNoTags]

\* UnsignedCorim.FromCBOR: the payload follows the tag.
FromCBOR(buf) == DecodePayload(SubSeq(buf, 4, Len(buf)))

\* SignedCorim.FromCOSE: the payload, which becomes signed.UnsignedCorim,
\* stands between the tag and the signature byte; FromCOSE verifies no
\* signature.
FromCOSE(buf) == DecodePayload(SubSeq(buf, 2, Len(buf) - 1))

\* Store.Digest: the hash of the buffer, taken to be free of collisions.
Digest(buf) == ToString(buf)

\* AddBytes that takes a signed CoRIM whatever the configuration says.
AddBytesAlwaysInsecure(d, q, buf, label, activate, cfg, insecure) ==
  LET c == IF buf[1] = SignedTag THEN FromCOSE(buf) ELSE FromCBOR(buf)
  IN  IF Len(buf) < 3 THEN Res(d, q, "TooShort")
      ELSE IF buf[1] # SignedTag /\ SubSeq(buf, 1, 3) # UnsignedTag
      THEN Res(d, q, "UnrecognizedFormat")
      ELSE IF ~c.ok THEN Res(d, q, "CBORDecode")
      ELSE AddCoRIM(d, q, [c.corim EXCEPT !.digest = Digest(buf)], label,
                    activate, cfg, "none")

\* Store.AddBytes; insecure is the Insecure field of the configuration.
AddBytes(d, q, buf, label, activate, cfg, insecure) ==
  LET digest == Digest(buf)
      signed == FromCOSE(buf)
      unsigned == FromCBOR(buf)
  IN  IF Len(buf) < 3 THEN Res(d, q, "TooShort")
      ELSE IF buf[1] = SignedTag
      THEN IF ~insecure THEN Res(d, q, "SignedNotSupported")
           ELSE IF ~signed.ok THEN Res(d, q, "CBORDecode")
           ELSE AddCoRIM(d, q, [signed.corim EXCEPT !.digest = digest], label,
                         activate, cfg, "none")
      ELSE IF SubSeq(buf, 1, 3) = UnsignedTag
      THEN IF ~unsigned.ok THEN Res(d, q, "CBORDecode")
           ELSE AddCoRIM(d, q, [unsigned.corim EXCEPT !.digest = digest], label,
                         activate, cfg, "none")
      ELSE Res(d, q, "UnrecognizedFormat")

\* The bytes buffers are made of: the tag bytes and the payload bytes.
Bytes == {SignedTag, 217, 1, 245}

\* Every buffer of up to MaxBufLen bytes.
Buffers == UNION {[1..n -> Bytes] : n \in 0..MaxBufLen}

Clients == {"c1", "c2"}

Idle == [at |-> "idle"]

Init ==
  /\ db = EmptyDB
  /\ seq = [tbl \in Tables |-> 0]
  /\ last = [op |-> "init", err |-> "ok"]
  /\ pend = [c \in Clients |-> Idle]

\* Store.AddCoRIM / Store.AddManifest, one call from start to return, for a
\* token of cs under a configuration of cfgs with a fault of faults.
Add(cs, cfgs, faults) ==
  \E c \in cs, label \in AddLabels, activate \in BOOLEAN, cfg \in cfgs,
     fault \in faults :
    LET r == AddCoRIM(db, seq, c, label, activate, cfg, fault)
    IN  /\ seq["manifests"] < MaxAdds
        /\ db' = r.db
        /\ seq' = r.seq
        /\ last' = [op |-> "add", err |-> r.err]
        /\ UNCHANGED pend

\* Any token, any configuration, with and without a failing database.
DoAdd == Add(Corims, Cfgs, Faults)

\* Valid tokens added to a working database by a store that asks for no label.
DoIngest == Add(ValidCorims, IngestCfgs, {"none"})

\* Tokens with and without a digest added to a working database.
DoAddDigest == Add(DigestCorims, Cfgs, {"none"})

\* Store.AddBytes, one call from start to return, by a store without Force
\* and RequireLabel.
DoAddBytes ==
  \E buf \in Buffers, insecure \in BOOLEAN :
    LET r == AddBytes(db, seq, buf, "a", FALSE, Cfg(FALSE, FALSE), insecure)
    IN  /\ seq["manifests"] < MaxAdds
        /\ db' = r.db
        /\ seq' = r.seq
        /\ last' = [op |-> "addBytes", err |-> r.err]
        /\ UNCHANGED pend

\* Store.DeleteManifest.
DoDelete ==
  \E mid \in ManifestIDs, label \in Labels, cfg \in ReadCfgs :
    LET r == DeleteManifest(db, seq, mid, label, cfg)
    IN  /\ db' = r.db
        /\ seq' = r.seq
        /\ last' = [op |-> "delete", err |-> r.err]
        /\ UNCHANGED pend

\* The activate (value = TRUE) and deactivate (value = FALSE) commands.
DoSetActive ==
  \E req \in Reqs, value \in BOOLEAN :
    LET r == setActiveCommand(db, req, value)
    IN  /\ db' = r.db
        /\ last' = [op |-> "setActive", err |-> r.err]
        /\ UNCHANGED <<seq, pend>>

\* GetValueTriples, GetKeyTriples, GetActiveValueTriples, GetActiveKeyTriples.
DoGetTriples ==
  \E kind \in TripleTables, env \in Probes, label \in Labels,
     exact \in BOOLEAN, activeOnly \in BOOLEAN, cfg \in ReadCfgs :
    LET r == getTriples(db, kind, env, label, exact, activeOnly, cfg)
    IN  /\ last' = [op |-> "get", err |-> r.err]
        /\ UNCHANGED <<db, seq, pend>>

\* Two clients inside AddManifest at once, both with Force = false.  The
\* lookup of the stored manifest is a statement of its own on the shared
\* database; the insert runs later, in its transaction.
AddLookup(c) ==
  \E co \in ValidCorims, label \in AddLabels, requireLabel \in BOOLEAN :
    LET m == [co EXCEPT !.label = label]
        found == FindManifest(db, m.manifest_id)
        err == IF requireLabel /\ label = "" THEN "NoLabel"
               ELSE IF found # {}
               THEN DigestError(CHOOSE r \in found : TRUE, m)
               ELSE "ok"
    IN  /\ pend[c] = Idle
        /\ seq["manifests"] < MaxAdds
        /\ IF err = "ok"
           THEN /\ pend' = [pend EXCEPT ![c] = [at |-> "insert", m |-> m]]
                /\ UNCHANGED last
           ELSE /\ last' = [op |-> "add", err |-> err]
                /\ UNCHANGED pend
        /\ UNCHANGED <<db, seq>>

AddInsert(c) ==
  /\ pend[c] # Idle
  /\ LET r == InsertTx(db, seq, pend[c].m, "none")
     IN  /\ db' = r.db
         /\ seq' = r.seq
         /\ last' = [op |-> "add", err |-> r.err]
  /\ pend' = [pend EXCEPT ![c] = Idle]

\* The store's life: manifests come and go.
Next == DoAdd \/ DoDelete

Spec == Init /\ [][Next]_vars

\* Tokens with and without a digest come and go.
NextDigest == DoAddDigest \/ DoDelete

SpecDigest == Init /\ [][NextDigest]_vars

\* Ingest, activation, deactivation and deletion.
NextLifecycle == DoIngest \/ DoSetActive \/ DoDelete

SpecLifecycle == Init /\ [][NextLifecycle]_vars

\* Ingest from buffers.
NextBytes == DoAddBytes

SpecBytes == Init /\ [][NextBytes]_vars

\* Store.DeleteManifest statement by statement.  The call runs on the store's
\* connection, outside any transaction: each statement of Manifest.Delete
\* takes effect when it is executed.  pend[c] holds the statements the call
\* of client c still has to issue for the object it has loaded, and whether
\* one of its statements has removed a row.
DeleteLocate(c) ==
  \E mid \in ManifestIDs, label \in {"a"} :
    LET err == GetManifestErr(db, mid, label, Cfg(FALSE, FALSE))
    IN  /\ pend[c] = Idle
        /\ IF err = "ok"
           THEN /\ pend' = [pend EXCEPT ![c] =
                              [at |-> "delete", changed |-> FALSE,
                               stmts |-> ManifestDelete(db, GetManifest(db, mid, label))]]
                /\ UNCHANGED last
           ELSE /\ last' = [op |-> "delete", err |-> err]
                /\ UNCHANGED pend
        /\ UNCHANGED <<db, seq>>

\* The next statement is executed; after the last one the call returns.
DeleteExec(c) ==
  /\ pend[c] # Idle /\ pend[c].at = "delete"
  /\ db' = ExecStmt(db, Head(pend[c].stmts))
  /\ IF Len(pend[c].stmts) = 1
     THEN /\ pend' = [pend EXCEPT ![c] = Idle]
          /\ last' = [op |-> "delete", err |-> "ok"]
     ELSE /\ pend' = [pend EXCEPT ![c].stmts = Tail(@),
                                  ![c].changed = @ \/ db' # db]
          /\ UNCHANGED last
  /\ UNCHANGED seq

\* The next statement fails (the database gives an error, or the context is
\* cancelled): Delete returns the error at once.
DeleteFail(c) ==
  /\ pend[c] # Idle /\ pend[c].at = "delete"
  /\ pend' = [pend EXCEPT ![c] = Idle]
  /\ last' = [op |-> "delete", err |-> "Database"]
  /\ UNCHANGED <<db, seq>>

\* Small valid tokens stored under one label, with and without Force.
DoAddSmall ==
  \E c \in {CorimA2, CorimB}, cfg \in IngestCfgs :
    LET r == AddCoRIM(db, seq, c, "a", FALSE, cfg, "none")
    IN  /\ seq["manifests"] < MaxAdds
        /\ db' = r.db
        /\ seq' = r.seq
        /\ last' = [op |-> "add", err |-> r.err]
        /\ UNCHANGED pend

\* One client's DeleteManifest statement by statement, among the adds and
\* the deletes of the other clients, which run from start to return.
NextDelete ==
  \/ DoAddSmall
  \/ DoDelete
  \/ DeleteLocate("c1") \/ DeleteExec("c1") \/ DeleteFail("c1")

SpecDelete == Init /\ [][NextDelete]_vars

\* The activate and deactivate commands run on a store in which a
\* DeleteManifest may have stopped half way.
NextSetActive ==
  \/ DoAddSmall
  \/ DoSetActive
  \/ DeleteLocate("c1")
  \/ DeleteExec("c1")
  \/ DeleteFail("c1")

SpecSetActive == Init /\ [][NextSetActive]_vars

\* Opening a store.  The configuration is the record of its fields; db is
\* the store handle: whether it is open, and the dialect it talks.

\* Config.Validate.
ConfigValidate(cfg) ==
  IF cfg.DBMS \notin {"sqlite", "sqlite3", "mysql", "mariadb", "postgres",
                      "pq", "pgx"}
    THEN "InvalidDBMS"
  ELSE IF cfg.HashAlg \notin {"md5", "MD5", "sha256", "SHA256", "sha512",
                              "SHA512"}
    THEN "InvalidHashAlg"
  ELSE "ok"

\* db.Open: the dialect chosen for the DBMS name.
dbOpen(cfg) ==
  IF cfg.DBMS \in {"mysql", "mariadb"} THEN [err |-> "ok", dialect |-> "mysql"]
  ELSE IF cfg.DBMS \in {"sqlite", "sqlite3"}
    THEN [err |-> "ok", dialect |-> "sqlite"]
  ELSE IF cfg.DBMS \in {"postgres", "pq", "pgx", "pg"}
    THEN [err |-> "ok", dialect |-> "pg"]
  ELSE [err |-> "UnsupportedDBMS", dialect |-> "none"]

InitOpen ==
  /\ db = [open |-> FALSE, dialect |-> "none"]
  /\ seq = [tbl \in Tables |-> 0]
  /\ last = [op |-> "init", err |-> "ok"]
  /\ pend = [c \in Clients |-> Idle]

\* store.Open with a configuration built from the command line.
Open ==
  \E dbms \in {"sqlite", "sqlite3", "mysql", "mariadb", "postgres", "pq",
               "pgx", "pg", "oracle", ""},
     hashAlg \in {"md5", "MD5", "sha256", "SHA256", "sha512", "SHA512",
                  "sha1", ""},
     insecure \in BOOLEAN :
    LET cfg == [DBMS |-> dbms, HashAlg |-> hashAlg, Insecure |-> insecure]
        err == ConfigValidate(cfg)
        opened == dbOpen(cfg)
    IN  /\ ~db.open
        /\ last' = [op |-> "Open", cfg |-> cfg,
                    err |-> IF err # "ok" THEN err ELSE opened.err]
        /\ db' = IF last'.err = "ok"
                 THEN [open |-> TRUE, dialect |-> opened.dialect]
                 ELSE db
        /\ UNCHANGED <<seq, pend>>

\* Store.Close.
Close ==
  /\ db.open
  /\ db' = [db EXCEPT !.open = FALSE]
  /\ UNCHANGED <<seq, last, pend>>

NextOpen == Open \/ Close

SpecOpen == InitOpen /\ [][NextOpen]_vars

\* AddManifest with its insert transaction seen from the database.  The
\* statements of the transaction read what is committed and what the
\* transaction itself has written; the rows it writes are seen by the other
\* clients once it has committed.  The schema declares no unique index and no
\* foreign key.  pend[c] holds the rows the open transaction of client c has
\* written; the autoincrement counters advance when the rows are written.
AddTx(c) ==
  \E co \in ValidCorims :
    LET m == [co EXCEPT !.label = "a"]
        s == ManifestInsert(St(db, seq), m)
    IN  /\ pend[c] = Idle
        /\ seq["manifests"] < MaxAdds
        /\ IF FindManifest(db, m.manifest_id) # {}
           THEN /\ last' = [op |-> "add",
                            err |-> DigestError(CHOOSE r \in FindManifest(db, m.manifest_id) : TRUE, m)]
                /\ UNCHANGED <<seq, pend>>
           ELSE /\ seq' = s.seq
                /\ pend' = [pend EXCEPT ![c] =
                              [at |-> "commit",
                               rows |-> [tbl \in DOMAIN db |-> s.db[tbl] \ db[tbl]]]]
                /\ UNCHANGED last
        /\ UNCHANGED db

\* tx.Commit.
AddCommit(c) ==
  /\ pend[c] # Idle /\ pend[c].at = "commit"
  /\ db' = [tbl \in DOMAIN db |-> db[tbl] \cup pend[c].rows[tbl]]
  /\ pend' = [pend EXCEPT ![c] = Idle]
  /\ last' = [op |-> "add", err |-> "ok"]
  /\ UNCHANGED seq

NextTx == DoDelete \/ \E c \in Clients : AddTx(c) \/ AddCommit(c)

SpecTx == Init /\ [][NextTx]_vars

\* Schema migration: "db init" (initCmd), "db migrate" (migrateCmd) and
\* Store.Migrate, run by two processes on one database.  The database is
\* seen through the migrator's meta-tables: locks, the rows of the lock
\* table, and applied, the migrations marked as applied.  pend[c] is the
\* position of process c: the command it runs, whether it has taken the lock
\* and not yet released it (holds), and the migrations its Migrate call still
\* has to run (todo).

Cmds == {"initCmd", "migrateCmd", "Store.Migrate"}

\* The registered migrations, by number.
Migrations == 1..MaxMigrations

InitMigrate ==
  /\ db = [locks |-> {}, applied |-> {}]
  /\ seq = [tbl \in Tables |-> 0]
  /\ last = [op |-> "init", err |-> "ok"]
  /\ pend = [c \in Clients |-> Idle]

\* migrator.Lock: one row per migrations table in the lock table; the insert
\* fails when the row is there, and the command gives up.
Lock(c) ==
  \E cmd \in Cmds :
    /\ pend[c] = Idle
    /\ IF db.locks = {}
       THEN /\ db' = [db EXCEPT !.locks = {"bun_migrations"}]
            /\ pend' = [pend EXCEPT ![c] = [at |-> "defer", cmd |-> cmd,
                                            holds |-> TRUE, todo |-> <<>>]]
            /\ UNCHANGED last
       ELSE /\ last' = [op |-> cmd, err |-> "Locked"]
            /\ UNCHANGED <<db, pend>>
    /\ UNCHANGED seq

\* migrator.Unlock: the lock row is deleted.
Unlock(d) == [d EXCEPT !.locks = {}]

\* The defer statement after Lock.  initCmd defers a closure and
\* Store.Migrate defers the Unlock call itself: Unlock runs when the function
\* returns.  migrateCmd defers CheckErr(migrator.Unlock(ctx)): the argument is
\* evaluated by the defer statement, so Unlock runs here.
Defer(c) ==
  /\ pend[c] # Idle /\ pend[c].at = "defer"
  /\ IF pend[c].cmd = "migrateCmd"
     THEN /\ db' = Unlock(db)
          /\ pend' = [pend EXCEPT ![c].at = "migrate", ![c].holds = FALSE]
     ELSE /\ db' = db
          /\ pend' = [pend EXCEPT ![c].at = "migrate"]
  /\ UNCHANGED <<seq, last>>

\* migrator.Migrate reads which migrations are not applied yet.
Migrate(c) ==
  /\ pend[c] # Idle /\ pend[c].at = "migrate"
  /\ pend' = [pend EXCEPT ![c].at = "up",
                          ![c].todo = SortedSeq(Migrations \ db.applied)]
  /\ UNCHANGED <<db, seq, last>>

\* migrator.Migrate marks the next migration as applied and runs it.
MigrationUp(c) ==
  /\ pend[c] # Idle /\ pend[c].at = "up" /\ pend[c].todo # <<>>
  /\ db' = [db EXCEPT !.applied = @ \cup {Head(pend[c].todo)}]
  /\ pend' = [pend EXCEPT ![c].todo = Tail(@)]
  /\ UNCHANGED <<seq, last>>

\* The command returns and its deferred call runs: Unlock for initCmd and
\* Store.Migrate, CheckErr of the value Unlock returned for migrateCmd.
Return(c) ==
  /\ pend[c] # Idle /\ pend[c].at = "up" /\ pend[c].todo = <<>>
  /\ db' = IF pend[c].cmd = "migrateCmd" THEN db ELSE Unlock(db)
  /\ pend' = [pend EXCEPT ![c] = Idle]
  /\ last' = [op |-> pend[c].cmd, err |-> "ok"]
  /\ UNCHANGED seq

NextMigrate ==
  \E c \in Clients :
    Lock(c) \/ Defer(c) \/ Migrate(c) \/ MigrationUp(c) \/ Return(c)

SpecMigrate == InitMigrate /\ [][NextMigrate]_vars

\* Entity roles.  A role string is the sequence of its characters.

\* comid.RoleTagCreator, comid.RoleCreator, comid.RoleMaintainer,
\* corim.RoleManifestCreator and corim.RoleManifestSigner.
RoleTagCreator == 0
RoleCreator == 1
RoleMaintainer == 2
RoleManifestCreator == 1
RoleManifestSigner == 2

Digits == <<"0", "1", "2", "3", "4", "5", "6", "7", "8", "9">>

\* The decimal digits of a role code, as %d prints them.
RECURSIVE Itoa(_)
Itoa(n) ==
  IF n < 10 THEN <<Digits[n + 1]>>
  ELSE Itoa(n \div 10) \o <<Digits[(n % 10) + 1]>>

\* strconv.Atoi of a string of decimal digits.
RECURSIVE Atoi(_)
Atoi(s) ==
  LET value(c) == (CHOOSE i \in 1..10 : Digits[i] = c) - 1
  IN  IF Len(s) = 1 THEN value(s[1])
      ELSE 10 * Atoi(SubSeq(s, 1, Len(s) - 1)) + value(s[Len(s)])

\* role.String(): the name of a named role, Role(<n>) for any other code.
RoleString(kind, n) ==
  IF kind = "comid" /\ n = RoleTagCreator THEN <<"t", "a", "g", "C", "r", "e", "a", "t", "o", "r">>
  ELSE IF kind = "comid" /\ n = RoleCreator THEN <<"c", "r", "e", "a", "t", "o", "r">>
  ELSE IF kind = "comid" /\ n = RoleMaintainer THEN <<"m", "a", "i", "n", "t", "a", "i", "n", "e", "r">>
  ELSE IF kind = "corim" /\ n = RoleManifestCreator THEN <<"m", "a", "n", "i", "f", "e", "s", "t", "C", "r", "e", "a", "t", "o", "r">>
  ELSE IF kind = "corim" /\ n = RoleManifestSigner THEN <<"m", "a", "n", "i", "f", "e", "s", "t", "S", "i", "g", "n", "e", "r">>
  ELSE <<"R", "o", "l", "e", "(">> \o Itoa(n) \o <<")">>

\* roleRegex.FindStringSubmatch: the leftmost match of Role\((\d)\) in the
\* text and its group, the one digit between the brackets; empty when the
\* text holds no match.
roleRegex(text) ==
  LET hits == {i \in 1..(Len(text) - 6) :
                 /\ SubSeq(text, i, i + 4) = <<"R", "o", "l", "e", "(">>
                 /\ \E d \in 1..10 : Digits[d] = text[i + 5]
                 /\ text[i + 6] = ")"}
  IN  IF hits = {} THEN <<>>
      ELSE LET i == CHOOSE h \in hits : \A j \in hits : h <= j
           IN  <<SubSeq(text, i, i + 6), <<text[i + 5]>>>>

ParseCoRIMRole(text) ==
  IF text = <<"m", "a", "n", "i", "f", "e", "s", "t", "C", "r", "e", "a", "t", "o", "r">>
    THEN [role |-> RoleManifestCreator, err |-> "ok"]
  ELSE IF text = <<"m", "a", "n", "i", "f", "e", "s", "t", "S", "i", "g", "n", "e", "r">>
    THEN [role |-> RoleManifestSigner, err |-> "ok"]
  ELSE LET matches == roleRegex(text)
       IN  IF Len(matches) = 2
             THEN [role |-> Atoi(matches[2]), err |-> "ok"]
           ELSE [role |-> 0, err |-> "InvalidRole"]

ParseCoMIDRole(text) ==
  IF text = <<"t", "a", "g", "C", "r", "e", "a", "t", "o", "r">> THEN [role |-> RoleTagCreator, err |-> "ok"]
  ELSE IF text = <<"c", "r", "e", "a", "t", "o", "r">> THEN [role |-> RoleCreator, err |-> "ok"]
  ELSE IF text = <<"m", "a", "i", "n", "t", "a", "i", "n", "e", "r">> THEN [role |-> RoleMaintainer, err |-> "ok"]
  ELSE LET matches == roleRegex(text)
       IN  IF Len(matches) = 2
             THEN [role |-> Atoi(matches[2]), err |-> "ok"]
           ELSE [role |-> 0, err |-> "InvalidRole"]

InitRoles ==
  /\ db = [roles |-> {}]
  /\ seq = [tbl \in Tables |-> 0]
  /\ last = [op |-> "init", err |-> "ok"]
  /\ pend = [c \in Clients |-> Idle]

\* CoMIDRolesFromCoRIM and CoRIMRolesFromCoRIM: the role of an entity of a
\* module tag or of a manifest is stored as its string.
RolesFromCoRIM ==
  \E kind \in {"comid", "corim"}, n \in 0..MaxRole :
    /\ seq["roles"] < MaxAdds
    /\ seq' = [seq EXCEPT !["roles"] = @ + 1]
    /\ db' = [db EXCEPT !.roles = @ \cup {[id |-> seq'["roles"], kind |-> kind,
                                           role |-> RoleString(kind, n)]}]
    /\ last' = [op |-> "RolesFromCoRIM", err |-> "ok"]
    /\ UNCHANGED pend

\* Entity.ToCoRIM: a stored role is parsed back, by the parser of its kind.
RolesToCoRIM ==
  \E r \in db.roles :
    LET parsed == IF r.kind = "corim" THEN ParseCoRIMRole(r.role)
                  ELSE ParseCoMIDRole(r.role)
    IN  /\ last' = [op |-> "RolesToCoRIM", err |-> parsed.err,
                    kind |-> r.kind, text |-> r.role, role |-> parsed.role]
        /\ UNCHANGED <<db, seq, pend>>

NextRoles == RolesFromCoRIM \/ RolesToCoRIM

SpecRoles == InitRoles /\ [][NextRoles]_vars

\* Ingest and the activation commands.
NextActivate == DoIngest \/ DoSetActive

SpecActivate == Init /\ [][NextActivate]_vars

\* Queries over what has been ingested.
NextQuery == DoIngest \/ DoGetTriples

SpecQuery == Init /\ [][NextQuery]_vars

\* Concurrent clients adding manifests.
NextConcurrent == \E c \in Clients : AddLookup(c) \/ AddInsert(c)

SpecConcurrent == Init /\ [][NextConcurrent]_vars

-----------------------------------------------------------------------------
\* Vocabulary of the properties: the identity of a row, what a row owns, and
\* the steps that are a given call.

AllRows(d) ==
  {<<"manifests", r.id>> : r \in d.manifests}
    \cup {<<"module_tags", r.id>> : r \in d.module_tags}
    \cup {<<"value_triples", r.id>> : r \in d.value_triples}
    \cup {<<"key_triples", r.id>> : r \in d.key_triples}
    \cup {<<r.tbl, r.id>> : r \in d.leaves}

\* The table an owner_type points into.
OwnerTable(ot) ==
  CASE ot = "manifest" -> "manifests"
    [] ot \in {"module_tag", "triples"} -> "module_tags"
    [] ot = "entity" -> "entities"
    [] ot = "locator" -> "locators"
    [] ot = "measurement" -> "measurements"
    [] ot = "integrity_register" -> "integrity_registers"
    [] ot = "value_triple" -> "value_triples"
    [] ot \in {"key_triple", "key_triple_auth"} -> "key_triples"

\* The rows whose owner is a row of S.
ChildrenOf(d, S) ==
  {<<"module_tags", r.id>> :
     r \in {x \in d.module_tags : <<"manifests", x.manifest_id>> \in S}}
    \cup {<<"value_triples", r.id>> :
            r \in {x \in d.value_triples : <<"module_tags", x.module_id>> \in S}}
    \cup {<<"key_triples", r.id>> :
            r \in {x \in d.key_triples : <<"module_tags", x.module_id>> \in S}}
    \cup {<<r.tbl, r.id>> :
            r \in {x \in d.leaves : <<OwnerTable(x.ot), x.oid>> \in S}}

\* S and everything owned, directly or transitively, by a row of S.
RECURSIVE OwnedBy(_, _)
OwnedBy(d, S) ==
  LET n == S \cup ChildrenOf(d, S)
  IN  IF n = S THEN S ELSE OwnedBy(d, n)

\* The triples of the module tags of the manifests whose manifest_id is in mids.
ManifestTriples(d, mids, kind) ==
  {t \in d[kind] :
     \E mt \in d.module_tags, man \in d.manifests :
       /\ mt.id = t.module_id
       /\ man.id = mt.manifest_id
       /\ man.manifest_id \in mids}

\* The triples a request names: by id, by module tag or by manifest.
Reachable(d, req, kind) ==
  {t \in d[kind] :
     \/ t.id \in Range(IF kind = "key_triples" THEN req.kts ELSE req.vts)
     \/ \E mt \in d.module_tags :
          mt.id = t.module_id /\ mt.tag_id \in Range(req.tags)}
    \cup ManifestTriples(d, Range(req.manifests), kind)

\* This step is the command run with req and value.
SetActiveCall(req, value) ==
  LET r == setActiveCommand(db, req, value)
  IN  db' = r.db /\ last' = [op |-> "setActive", err |-> r.err]

-----------------------------------------------------------------------------
\* The properties.

\* C1: AddManifest is atomic: whenever a call returns an error, under any
\* configuration, the store holds exactly the rows it held before the call.
C1_AddAtomic ==
  [][(last'.op = "add" /\ last'.err # "ok") => db' = db]_vars

\* C2: a successful activate (deactivate) request naming manifests leaves
\* is_active = true (false) on every value triple and key triple of every
\* module tag of those manifests.
C2_ManifestSetActive ==
  [][last' = [op |-> "setActive", err |-> "ok"] =>
       \A req \in Reqs, value \in BOOLEAN :
         SetActiveCall(req, value) =>
           \A kind \in TripleTables :
             \A t \in ManifestTriples(db', Range(req.manifests), kind) :
               t.is_active = value]_vars

\* C3: an activate or deactivate request changes nothing but the is_active of
\* the triples reachable from its targets: every other triple, and every
\* other table, is as it was.
C3_SetActiveFrame ==
  [][last'.op = "setActive" =>
       \A req \in Reqs, value \in BOOLEAN :
         SetActiveCall(req, value) =>
           /\ \A kind \in TripleTables :
                /\ \A t \in db[kind] \ Reachable(db, req, kind) : t \in db'[kind]
                /\ \A t \in Reachable(db, req, kind) :
                     \E b \in BOOLEAN : [t EXCEPT !.is_active = b] \in db'[kind]
                /\ Cardinality(db'[kind]) = Cardinality(db[kind])
           /\ \A tbl \in DOMAIN db \ TripleTables : db'[tbl] = db[tbl]]_vars

\* A request by triple id has acted: of two triples of one module tag, one is
\* active and the other is not, which no ingest produces.
C3_Witness ==
  /\ last = [op |-> "setActive", err |-> "ok"]
  /\ \E kt \in db.key_triples, vt \in db.value_triples :
       kt.module_id = vt.module_id /\ kt.is_active # vt.is_active

\* The label of the manifest a triple belongs to, as a set (empty when the
\* chain is broken).
TripleLabels(d, t) ==
  {man.label : man \in {x \in d.manifests :
                          \E mt \in d.module_tags :
                            mt.id = t.module_id /\ mt.manifest_id = x.id}}

\* C4: for every non-empty label L and every store state, each triple a
\* Get*Triples call with label L returns belongs to a module tag of a manifest
\* whose label is L.
C4_LabelFilter ==
  \A kind \in TripleTables, env \in Probes, label \in Labels \ {""},
     exact \in BOOLEAN, activeOnly \in BOOLEAN, cfg \in ReadCfgs :
    LET r == getTriples(db, kind, env, label, exact, activeOnly, cfg)
    IN  r.err = "ok" =>
          \A t \in {x \in db[kind] : x.id \in r.ids} : TripleLabels(db, t) = {label}

\* C5: with RequireLabel and an empty label, every Get*Triples call fails with
\* NoLabel, for every probe and every store state, and sends no query to the
\* database.
C5_NoLabelNoQuery ==
  \A kind \in TripleTables, env \in Probes, exact \in BOOLEAN,
     activeOnly \in BOOLEAN :
    LET r == getTriples(db, kind, env, "", exact, activeOnly, Cfg(FALSE, TRUE))
    IN  r.err = "NoLabel" /\ r.queries = 0

\* This step is DeleteManifest(manifestID, label) under cfg.
DeleteCall(manifestID, label, cfg) ==
  LET r == DeleteManifest(db, seq, manifestID, label, cfg)
  IN  db' = r.db /\ seq' = r.seq /\ last' = [op |-> "delete", err |-> r.err]

\* C6: after DeleteManifest(id, label) succeeds, no row owned directly or
\* transitively by that manifest remains in any table.
C6_DeleteRemovesOwned ==
  [][last' = [op |-> "delete", err |-> "ok"] =>
       \A mid \in ManifestIDs, label \in Labels, cfg \in ReadCfgs :
         DeleteCall(mid, label, cfg) =>
           OwnedBy(db, {<<"manifests", GetManifest(db, mid, label)>>})
             \cap AllRows(db') = {}]_vars

\* The environment ids the triples of the manifest with database id id refer to.
ManifestEnvironments(d, id) ==
  {t.environment_id :
     t \in {x \in d.value_triples \cup d.key_triples :
              \E mt \in d.module_tags : mt.id = x.module_id /\ mt.manifest_id = id}}

\* C7: after a successful DeleteManifest, an environment row a triple of the
\* deleted manifest referred to is gone if and only if no value_triples or
\* key_triples row refers to it any more.
C7_OrphanedEnvironments ==
  [][last' = [op |-> "delete", err |-> "ok"] =>
       \A mid \in ManifestIDs, label \in Labels, cfg \in ReadCfgs :
         DeleteCall(mid, label, cfg) =>
           \A e \in ManifestEnvironments(db, GetManifest(db, mid, label)) :
             /\ \E row \in db.environments : row.id = e
             /\ (\E row \in db'.environments : row.id = e)
                  <=> (\E t \in db'.value_triples \cup db'.key_triples :
                         t.environment_id = e)]_vars

\* m1 (vendor and class environments) has been deleted from a store that
\* also holds m2 (vendor and empty environments): of the three environments
\* ever stored the class one is gone and the shared vendor one is still there.
C7_Witness ==
  /\ last = [op |-> "delete", err |-> "ok"]
  /\ seq["manifests"] = 2 /\ Cardinality(db.manifests) = 1
  /\ seq["environments"] = 3
  /\ \E row \in db.environments : row.cols = EnvVendor
  /\ ~\E row \in db.environments : row.cols = EnvClass

\* The environments manifests carry.
Environments == {AllNull, EnvVendor, EnvClass, EnvInstance}

\* C8: whatever AddManifest and DeleteManifest calls have run one after the
\* other, no two environment rows agree on all ten columns, and inserting an
\* environment equal to a stored row creates no row and yields the id of the
\* stored row.
C8_EnvironmentDedup ==
  /\ \A e1, e2 \in db.environments : e1.cols = e2.cols => e1 = e2
  /\ \A env \in Environments : \A row \in db.environments :
       row.cols = env =>
         /\ EnvironmentInsert(St(db, seq), env) = St(db, seq)
         /\ EnvironmentInsertID(St(db, seq), env) = row.id

\* A value triple and a key triple of different module tags share one
\* environment row: the second insert of the vendor environment adopted the
\* stored row.
C8_Witness ==
  /\ last = [op |-> "add", err |-> "ok"]
  /\ \E vt \in db.value_triples, kt \in db.key_triples :
       vt.environment_id = kt.environment_id /\ vt.module_id # kt.module_id

\* C9: two concurrent AddManifest calls for one manifest_id with Force = false
\* never leave two manifest rows with that manifest_id.
C9_OneRowPerManifestID ==
  \A r1, r2 \in db.manifests : r1.manifest_id = r2.manifest_id => r1 = r2

\* This step is AddCoRIM of c under label with cfg and fault.
AddCall(c, label, activate, cfg, fault) ==
  LET r == AddCoRIM(db, seq, c, label, activate, cfg, fault)
  IN  db' = r.db /\ seq' = r.seq /\ last' = [op |-> "add", err |-> r.err]

\* C10: with Force, AddManifest of a valid manifest whose manifest_id is
\* stored succeeds (the database working, the label given if asked for) and
\* leaves exactly one manifest row for that id and no row of the replaced
\* manifest.
C10_ForceReplace ==
  [][last'.op = "add" =>
       \A c \in ValidCorims, label \in AddLabels, activate \in BOOLEAN,
          cfg \in Cfgs :
         (/\ cfg.Force
          /\ ~(cfg.RequireLabel /\ label = "")
          /\ FindManifest(db, c.manifest_id) # {}
          /\ AddCall(c, label, activate, cfg, "none")) =>
           /\ last'.err = "ok"
           /\ Cardinality({r \in db'.manifests : r.manifest_id = c.manifest_id}) = 1
           /\ \A old \in {r \in db.manifests : r.manifest_id = c.manifest_id} :
                OwnedBy(db, {<<"manifests", old.id>>}) \cap AllRows(db') = {}]_vars

\* This step is an add, with Force = false, of a manifest whose manifest_id
\* is stored; it leaves the store as it was and reports the digests' error.
AlreadyInStoreStep(labelChecked) ==
  last'.op = "add" =>
    \A c \in DigestCorims, label \in AddLabels, activate \in BOOLEAN,
       cfg \in Cfgs :
      (/\ ~cfg.Force
       /\ labelChecked => ~(cfg.RequireLabel /\ label = "")
       /\ FindManifest(db, c.manifest_id) # {}
       /\ AddCall(c, label, activate, cfg, "none")) =>
        /\ db' = db
        /\ \A r \in FindManifest(db, c.manifest_id) :
             last'.err = IF r.digest = "" \/ c.digest = ""
                           THEN "AlreadyInStore"
                         ELSE IF r.digest = c.digest
                           THEN "AlreadyInStoreDigestsMatch"
                         ELSE "AlreadyInStoreDigestsDiffer"

\* C11 (as stated): with Force = false, AddManifest of a manifest whose
\* manifest_id is already stored always fails and leaves the store unchanged,
\* reporting "digests match" when both digests are present and equal,
\* "digests differ" when both are present and unequal, and plain "already in
\* store" when either digest is missing.
C11_AlreadyInStoreAnyLabel == [][AlreadyInStoreStep(FALSE)]_vars

\* C11 (amended): the same, for a call that passes the label check; with
\* RequireLabel and an empty label the call fails with NoLabel before the
\* lookup and leaves the store unchanged.
C11_AlreadyInStore ==
  [][/\ AlreadyInStoreStep(TRUE)
     /\ last' = [op |-> "add", err |-> "NoLabel"] => db' = db]_vars

\* A re-add was refused with the plain error while the stored manifest has a
\* digest: the new one came without.
C11_Witness ==
  /\ last = [op |-> "add", err |-> "AlreadyInStore"]
  /\ \E r \in db.manifests : r.manifest_id = "m1" /\ r.digest # ""

\* C12: a Get*Triples call (the GetActive variants included) that succeeds
\* returns at least one triple: when no row satisfies the filters applied
\* (environment, label, active) the call fails with NoMatch.
C12_NoEmptySuccess ==
  \A kind \in TripleTables, env \in Probes, label \in Labels,
     exact \in BOOLEAN, activeOnly \in BOOLEAN, cfg \in ReadCfgs :
    LET r == getTriples(db, kind, env, label, exact, activeOnly, cfg)
    IN  /\ r.err = "ok" => r.ids # {}
        /\ r.ids = {} => r.err \in {"NoMatch", "NoLabel"}

\* C13: for every probe and every store state, a Get*Triples call with
\* exact = true returns only triples whose environment is NULL in every column
\* the probe leaves unset (a probe with nothing set matches only triples of
\* the all-NULL environment); with exact = false a column the probe leaves
\* unset matches any value.
C13_ExactMatch ==
  \A kind \in TripleTables, env \in Probes, activeOnly \in BOOLEAN :
    /\ \A label \in Labels, cfg \in ReadCfgs :
         LET r == getTriples(db, kind, env, label, TRUE, activeOnly, cfg)
         IN  \A t \in {x \in db[kind] : x.id \in r.ids} :
               \A e \in {x \in db.environments : x.id = t.environment_id},
                  c \in Cols :
                 env[c] = NULL => e.cols[c] = NULL
    /\ LET r == getTriples(db, kind, env, "", FALSE, activeOnly, Cfg(FALSE, FALSE))
       IN  r.ids = {t.id : t \in {x \in db[kind] :
                      /\ activeOnly => x.is_active
                      /\ \A e \in {y \in db.environments :
                                     y.id = x.environment_id},
                         c \in Cols :
                           env[c] # NULL => e.cols[c] = env[c]}}

C16_AddBytesGate ==
  \A buf \in Buffers, cfg \in IngestCfgs, insecure \in BOOLEAN :
    LET r == AddBytes(db, seq, buf, "a", FALSE, cfg, insecure)
        ingestible == /\ Len(buf) >= 3
                      /\ \/ <<buf[1], buf[2], buf[3]>> = <<217, 1, 245>>
                         \/ buf[1] = 210 /\ insecure
        rejection == IF Len(buf) < 3 THEN "TooShort"
                     ELSE IF buf[1] = 210 THEN "SignedNotSupported"
                     ELSE "UnrecognizedFormat"
    IN  /\ r.db # db => ingestible
        /\ r.err = "ok" => ingestible
        /\ ~ingestible => r.db = db /\ r.seq = seq /\ r.err = rejection

\* A signed CoRIM has been ingested (its digest is that of a buffer that
\* begins with D2) and the last AddBytes call turned a signed buffer away.
C16_Witness ==
  /\ last = [op |-> "addBytes", err |-> "SignedNotSupported"]
  /\ \E m \in db.manifests, buf \in Buffers :
       Len(buf) >= 3 /\ buf[1] = 210 /\ m.digest = Digest(buf)

\* With RequireLabel and an empty label: AddManifest and AddCoRIM, for every
\* manifest, configuration and fault, and GetManifest and DeleteManifest, for
\* every manifest_id, return NoLabel and leave the store as it is.
NoLabelCalls ==
  /\ \A c \in Corims \cup DigestCorims, activate \in BOOLEAN,
        force \in BOOLEAN, fault \in Faults :
       /\ AddCoRIM(db, seq, c, "", activate, Cfg(force, TRUE), fault)
            = Res(db, seq, "NoLabel")
       /\ AddManifest(db, seq, [c EXCEPT !.label = ""], Cfg(force, TRUE), fault)
            = Res(db, seq, "NoLabel")
  /\ \A mid \in ManifestIDs :
       /\ GetManifestErr(db, mid, "", Cfg(FALSE, TRUE)) = "NoLabel"
       /\ DeleteManifest(db, seq, mid, "", Cfg(FALSE, TRUE))
            = Res(db, seq, "NoLabel")

\* AddBytes with RequireLabel and an empty label fails and adds no rows.  The
\* error is NoLabel for every buffer (everyBuffer), or for the buffers that
\* pass the checks of AddBytes and decode.
NoLabelAddBytes(everyBuffer) ==
  \A buf \in Buffers, insecure \in BOOLEAN :
    LET r == AddBytes(db, seq, buf, "", FALSE, Cfg(FALSE, TRUE), insecure)
        decoded == /\ Len(buf) >= 3
                   /\ \/ SubSeq(buf, 1, 3) = UnsignedTag /\ FromCBOR(buf).ok
                      \/ buf[1] = SignedTag /\ insecure /\ FromCOSE(buf).ok
    IN  /\ r.db = db /\ r.seq = seq /\ r.err # "ok"
        /\ (everyBuffer \/ decoded) => r.err = "NoLabel"

\* C17 (as stated): when RequireLabel is set, AddBytes, AddCoRIM and
\* AddManifest with an empty label fail with NoLabel and add no rows, and
\* GetManifest and DeleteManifest with an empty label fail with NoLabel and
\* change nothing.
C17_NoLabelEveryBuffer == NoLabelCalls /\ NoLabelAddBytes(TRUE)

\* C17 (amended): the same, AddBytes reporting NoLabel for the buffers that
\* pass its checks and decode; any other buffer is turned away with the error
\* of the check it fails, before the label is looked at.
C17_NoLabel == NoLabelCalls /\ NoLabelAddBytes(FALSE)

\* An add without label has just been refused by a store that holds a
\* manifest.
C17_Witness ==
  /\ last = [op |-> "add", err |-> "NoLabel"]
  /\ db.manifests # {}

\* The rows of d that are not in e as they are in d (is_active left out
\* unless withActive).
Gone(d, e, withActive) ==
  {<<"manifests", r.id>> : r \in d.manifests \ e.manifests}
    \cup {<<"module_tags", r.id>> : r \in d.module_tags \ e.module_tags}
    \cup UNION {{<<kind, r.id>> : r \in {x \in d[kind] :
                   /\ x \notin e[kind]
                   /\ withActive \/ [x EXCEPT !.is_active = ~x.is_active] \notin e[kind]}} :
                kind \in TripleTables}
    \cup {<<r.tbl, r.id>> : r \in d.leaves \ e.leaves}
    \cup {<<"environments", r.id>> : r \in d.environments \ e.environments}

\* Every row of the manifest row man of d, and every environment row its
\* triples refer to, is in e as it is in d.
ManifestIntact(d, e, man, withActive) ==
  LET gone == Gone(d, e, withActive)
  IN  \/ gone = {}
      \/ gone \cap (OwnedBy(d, {<<"manifests", man.id>>})
                     \cup {<<"environments", id>> :
                             id \in ManifestEnvironments(d, man.id)}) = {}

\* This step leaves every stored manifest as it is, but for those a
\* DeleteManifest or a Force add may remove: the manifest whose manifest_id
\* the delete names together with its label (or with the empty label, if
\* emptyLabel), and the manifest whose manifest_id the Force add carries.
StoredManifestsStay(emptyLabel, withActive) ==
  \A man \in db.manifests :
    \/ db' = db
    \/ ManifestIntact(db, db', man, withActive)
    \/ /\ last'.op = "delete"
       /\ \A mid \in ManifestIDs, label \in Labels, cfg \in ReadCfgs :
            \/ /\ mid = man.manifest_id
               /\ label = man.label \/ (emptyLabel /\ label = "")
            \/ ~DeleteCall(mid, label, cfg)
    \/ /\ last'.op = "add"
       /\ \A c \in ValidCorims, label \in AddLabels, activate \in BOOLEAN,
             cfg \in IngestCfgs :
            \/ cfg.Force /\ c.manifest_id = man.manifest_id
            \/ ~AddCall(c, label, activate, cfg, "none")

\* C18 (as stated): a stored manifest and all its rows remain in the store,
\* unchanged, through every operation other than a DeleteManifest naming its
\* manifest_id and label or a Force add of the same manifest_id: adding or
\* deleting other manifests, queries, and a DeleteManifest with a
\* non-matching label leave it intact.
C18_ManifestPersistsExactly == [][StoredManifestsStay(FALSE, TRUE)]_vars

\* C18 (amended): the same, but a DeleteManifest that names the manifest_id
\* with an empty label removes the manifest whatever its label is, and the
\* activation commands change the is_active of its triples.
C18_ManifestPersists == [][StoredManifestsStay(TRUE, FALSE)]_vars

\* One of two stored manifests has just been deleted; the other is there.
C18_Witness ==
  /\ last = [op |-> "delete", err |-> "ok"]
  /\ seq["manifests"] = 2
  /\ Cardinality(db.manifests) = 1

\* C19: migrations are applied only while the applying process holds the
\* migration lock, from before its first migration step until after its
\* last, so two processes never apply migrations at the same time.
C19_MigrateUnderLock ==
  /\ \A c \in Clients :
       (pend[c] # Idle /\ pend[c].at \in {"migrate", "up"}) =>
         pend[c].holds /\ db.locks # {}
  /\ \A c1, c2 \in Clients :
       (/\ pend[c1] # Idle /\ pend[c1].at \in {"migrate", "up"}
        /\ pend[c2] # Idle /\ pend[c2].at \in {"migrate", "up"}) => c1 = c2

\* C20: for every integer role code n that has no named role, the stored
\* role string Role(<n>) parses back, through ParseCoRIMRole and through
\* ParseCoMIDRole, to n.
C20_RoleRoundTrip ==
  last.op = "RolesToCoRIM" =>
    \A n \in 0..MaxRole :
      last.text = <<"R", "o", "l", "e", "(">> \o Itoa(n) \o <<")">> =>
        last.err = "ok" /\ last.role = n

\* C21: for every valid CoRIM the store accepts, the manifest GetManifest
\* returns after the add converts (ToCoRIM) to a CoRIM equal to the ingested
\* one: its id, entities, dependent-RIM locators, manifest extensions and
\* every module tag with its value triples and key triples.
C21_RoundTrip ==
  [][last' = [op |-> "add", err |-> "ok"] =>
       \A c \in ValidCorims, label \in AddLabels, activate \in BOOLEAN,
          cfg \in IngestCfgs :
         AddCall(c, label, activate, cfg, "none") =>
           ManifestToCoRIM(
             ManifestSelect(db', GetManifest(db', c.manifest_id, label)))
             = ManifestToCoRIM(c)]_vars

\* C29: the extensions GetManifest returns for a manifest are exactly the
\* extension rows that were inserted for that manifest itself.
C29_ManifestExtensions ==
  \A r \in db.manifests :
    Range(ManifestExtensions(db, r.id))
      = {x.id : x \in {y \in db.leaves : /\ y.tbl = "extensions"
                                         /\ y.ot = "manifest"
                                         /\ y.oid = r.id}}

\* C22: in every reachable store state each stored manifest owns at least
\* one module tag and each stored module tag owns at least one value triple
\* or key triple.
C22_OwnsTagsAndTriples ==
  /\ \A man \in db.manifests : \E mt \in db.module_tags : mt.manifest_id = man.id
  /\ \A mt \in db.module_tags :
       \E t \in db.value_triples \cup db.key_triples : t.module_id = mt.id

\* C27: DeleteManifest is all-or-nothing: a call that returns an error after
\* it has located the manifest has removed no row.
C27_DeleteAllOrNothing ==
  [][\A c \in Clients : DeleteFail(c) => ~pend[c].changed]_vars

\* C28: in every reachable store state every value triple and key triple
\* belongs to an existing module tag and every module tag belongs to an
\* existing manifest.
C28_NoOrphans ==
  /\ \A t \in db.value_triples \cup db.key_triples :
       \E mt \in db.module_tags : mt.id = t.module_id
  /\ \A mt \in db.module_tags : \E man \in db.manifests : man.id = mt.manifest_id

\* A delete has failed part-way and has left a manifest without module tags
\* next to a manifest that is whole.
C28_Witness ==
  /\ last = [op |-> "delete", err |-> "Database"]
  /\ \E man \in db.manifests : \A mt \in db.module_tags : mt.manifest_id # man.id
  /\ db.value_triples \cup db.key_triples # {}

\* C23: every dbms name the configuration table lists (sqlite, postgres, pg,
\* pgx, pq, mysql, mariadb) passes the validation performed when a store is
\* opened, and an unknown name is rejected with a configuration error at
\* open time.  The hash algorithm is a valid one.
C23_DbmsValidated ==
  (/\ last.op = "Open"
   /\ last.cfg.HashAlg \in {"md5", "sha256", "sha512"}) =>
    /\ last.cfg.DBMS \in {"sqlite", "postgres", "pg", "pgx", "pq", "mysql",
                          "mariadb"} => last.err = "ok"
    /\ last.cfg.DBMS \in {"oracle", ""} => last.err = "InvalidDBMS" /\ ~db.open

\* C24: when two AddManifest transactions that contain content-equal
\* environments run concurrently, the store ends with one environment row
\* for that content: whatever the interleaving, no two environment rows
\* agree on all ten columns.
C24_ConcurrentDedup ==
  \A e1, e2 \in db.environments : e1.id # e2.id => e1.cols # e2.cols

\* C25: in every reachable state, every interleaving of one client's
\* AddManifest with another client's DeleteManifest included, the
\* environment_id of every value_triples and key_triples row refers to an
\* existing environments row.
C25_TripleEnvironmentExists ==
  \A t \in db.value_triples \cup db.key_triples :
    \E e \in db.environments : e.id = t.environment_id

\* C26: for every store state S and every valid manifest m whose manifest_id
\* is not in S, a successful AddManifest(m) followed by a successful
\* DeleteManifest(m.id, m.label) leaves the store with exactly the rows of S.
C26_AddThenDelete ==
  \A c \in ValidCorims, label \in AddLabels, activate \in BOOLEAN,
     cfg \in IngestCfgs :
    LET a == AddCoRIM(db, seq, c, label, activate, cfg, "none")
        r == DeleteManifest(a.db, a.seq, c.manifest_id, label, cfg)
    IN  (FindManifest(db, c.manifest_id) = {} /\ a.err = "ok" /\ r.err = "ok")
          => r.db = db

\* C30: an activate/deactivate request that names several targets is applied
\* entirely or not at all: when the command returns an error, no triple's
\* is_active value has changed.
C30_SetActiveAllOrNothing ==
  [][\A req \in Reqs, value \in BOOLEAN :
       (last'.op = "setActive" /\ last'.err # "ok" /\ SetActiveCall(req, value))
         => /\ db'.key_triples = db.key_triples
            /\ db'.value_triples = db.value_triples]_vars

=============================================================================
